---- MODULE Spec2Model ----
(***************************************************************************)
(* NucleaSeq oligo design notebook (notebooks/NucleaSeq Oligo Design.ipynb) *)
(* as a state machine: one action per notebook cell, in execution order.    *)
(* DNA strings are sequences over the bases "A", "C", "G", "T".             *)
(***************************************************************************)
EXTENDS Integers, Sequences, FiniteSets, TLC

\* ------------------------------------------------------------------------
\* Strings
\* ------------------------------------------------------------------------

bases == <<"A", "C", "G", "T">>

BaseSet == {bases[i] : i \in 1..Len(bases)}

Min2(a, b) == IF a < b THEN a ELSE b

Max2(a, b) == IF a > b THEN a ELSE b

\* python s[i:j] for 0 <= i, 0 <= j (clamped to the string)
Slice(s, i, j) == SubSeq(s, i + 1, Min2(j, Len(s)))

\* python s[i:]
SliceFrom(s, i) == SubSeq(s, i + 1, Len(s))

\* python s[-n:]
Tail_n(s, n) == SubSeq(s, Max2(Len(s) - n, 0) + 1, Len(s))

\* python `sub in s`
Contains(s, sub) ==
    \E i \in 0..(Len(s) - Len(sub)) : SubSeq(s, i + 1, i + Len(sub)) = sub

\* python s.startswith(p)
StartsWith(s, p) == Len(s) >= Len(p) /\ SubSeq(s, 1, Len(p)) = p

\* python s[::-1]
Reverse(s) == [i \in 1..Len(s) |-> s[Len(s) + 1 - i]]

Complement(b) ==
    CASE b = "A" -> "T"
      [] b = "C" -> "G"
      [] b = "G" -> "C"
      [] b = "T" -> "A"

\* Bio.Seq reverse_complement / seqtools.dna_rev_comp
dna_rev_comp(s) == [i \in 1..Len(s) |-> Complement(s[Len(s) + 1 - i])]

\* a.count('C') + a.count('G')
GCCount(s) == Cardinality({i \in 1..Len(s) : s[i] \in {"C", "G"}})

\* a sequence given by a rule, with every element worked out
Strict(s) == s \o <<>>

\* all strings of length n: itertools.product(bases, repeat=n)
Product(n) == [1..n -> BaseSet]

\* the elements of a set of strings, in lexicographic order
RECURSIVE LexOrder(_, _)
LexOrder(S, k) ==
    IF S = {} THEN <<>>
    ELSE LET here == {s \in S : Len(s) = k}
             rest(b) == {s \in S : Len(s) > k /\ s[k + 1] = b}
         IN  (IF here = {} THEN <<>> ELSE <<CHOOSE s \in here : TRUE>>)
             \o LexOrder(rest("A"), k + 1) \o LexOrder(rest("C"), k + 1)
             \o LexOrder(rest("G"), k + 1) \o LexOrder(rest("T"), k + 1)

\* ------------------------------------------------------------------------
\* freebarcodes.seqtools, as called by the notebook
\* ------------------------------------------------------------------------

RECURSIVE MismatchFrom(_, _, _)
MismatchFrom(seq, n, lo) ==
    IF n = 0 THEN {seq}
    ELSE UNION { MismatchFrom([seq EXCEPT ![p[1]] = p[2]], n - 1, p[1] + 1) :
                 p \in {q \in (lo..Len(seq)) \X BaseSet : seq[q[1]] # q[2]} }

\* every sequence with exactly n substituted positions
get_mismatch_seqs(seq, n) == MismatchFrom(seq, n, 1)

RemoveAt(seq, i) == SubSeq(seq, 1, i - 1) \o SubSeq(seq, i + 1, Len(seq))

RECURSIVE DeleteFrom(_, _, _)
DeleteFrom(seq, n, lo) ==
    IF n = 0 THEN {seq}
    ELSE UNION { DeleteFrom(RemoveAt(seq, i), n - 1, i) : i \in lo..Len(seq) }

\* every sequence with n positions deleted
get_deletion_seqs(seq, n) == DeleteFrom(seq, n, 1)

InsertAfter(seq, p, b) == SubSeq(seq, 1, p) \o <<b>> \o SubSeq(seq, p + 1, Len(seq))

RECURSIVE InsertBelow(_, _, _)
InsertBelow(seq, n, hi) ==
    IF n = 0 THEN {seq}
    ELSE UNION { InsertBelow(InsertAfter(seq, p[1], p[2]), n - 1, p[1] - 1) :
                 p \in (1..hi) \X BaseSet }

\* every sequence with one base inserted after each of n distinct positions
get_insertion_seqs(seq, n) == InsertBelow(seq, n, Len(seq))

ComplementStretch(seq, i, n) ==
    [j \in 1..Len(seq) |-> IF j >= i /\ j < i + n THEN Complement(seq[j]) ELSE seq[j]]

\* every sequence with one stretch of n bases replaced by its complement
get_stretch_of_complement_seqs(seq, n) ==
    { ComplementStretch(seq, i, n) : i \in 1..(Len(seq) - n + 1) }

\* every sequence with one stretch of n bases replaced by any n bases
get_randomized_stretch_seqs(seq, n) ==
    { SubSeq(seq, 1, i - 1) \o nb \o SubSeq(seq, i + n, Len(seq)) :
      <<i, nb>> \in (1..(Len(seq) - n + 1)) \X Product(n) }

\* ------------------------------------------------------------------------
\* Custom sequence functions
\* ------------------------------------------------------------------------

interesting_pams ==
    << <<"N","N","C","T","T","N">>, <<"N","N","C","C","T","N">>,
       <<"N","N","T","C","T","N">>, <<"N","N","C","G","C","N">>,
       <<"N","N","T","T","T","N">>, <<"N","N","A","T","T","N">>,
       <<"N","N","G","T","T","N">>, <<"N","N","G","C","T","N">>,
       <<"N","N","A","C","T","N">>, <<"N","N","T","T","C","N">>,
       <<"N","N","C","A","T","N">>, <<"N","N","T","C","C","N">>,
       <<"N","N","C","C","C","N">> >>

get_interesting_pam_seqs(tgt, pams) ==
    LET template_seq == SliceFrom(tgt, 4)
    IN  { <<b[1], b[2]>> \o Slice(pams[k], 2, 5) \o <<b[3]>> \o template_seq :
          <<k, b>> \in (1..Len(pams)) \X Product(3) }

\* the first base (in the order of `bases`) that is not in samp
next_different_base(samp) ==
    LET samp_bases == {samp[i] : i \in 1..Len(samp)}
        k == CHOOSE j \in 1..Len(bases) :
                 /\ bases[j] \notin samp_bases
                 /\ \A m \in 1..(j - 1) : bases[m] \in samp_bases
    IN  bases[k]

get_one_mm_seq_per_pos(seq) ==
    { Slice(seq, 0, i) \o <<next_different_base(Slice(seq, Max2(i - 1, 0), i + 2))>>
        \o SliceFrom(seq, i + 1) : i \in 0..(Len(seq) - 1) }

get_one_ins_seq_per_pos(seq) ==
    { Slice(seq, 0, i) \o <<next_different_base(Slice(seq, Max2(i - 1, 0), i + 1))>>
        \o SliceFrom(seq, i) : i \in 0..(Len(seq) - 1) }

get_single_mm_single_del_seqs(tgt) ==
    UNION { get_one_mm_seq_per_pos(del_seq) : del_seq \in get_deletion_seqs(tgt, 1) }

get_single_mm_single_ins_seqs(tgt) ==
    UNION { get_one_ins_seq_per_pos(mm_seq) : mm_seq \in get_one_mm_seq_per_pos(tgt) }

\* ------------------------------------------------------------------------
\* Bounds of the model
\* ------------------------------------------------------------------------

\* longest target drawn for the construction
MaxTargetLen == 5

\* number of leading entries of interesting_pams that are enumerated
NPams == 1

\* length of the barcodes in the barcode file
BarcodeLen == 5

\* largest n_err_detect_seqs drawn
MaxErrSeqs == 2

\* largest min_perfect_target_copies drawn
MaxPerfectCopies == 1

\* largest max_primer_len drawn
MaxPrimerLen == 3

\* most prefixes one call of find_good_prefixes returns
MaxGoodPrefixes == 3

\* largest k of a cut position k + 0.5 (or k) drawn, and largest pamtarg_coord_one_pos
MaxCut == 5

\* ------------------------------------------------------------------------
\* Run parameters and static sequences
\* ------------------------------------------------------------------------

master_seed == 43

\* rand_seeds[i]: random.randint(0, 100) drawn after random.seed(master_seed);
\* the generator is a fixed function of the seed, stood in for by a linear one
rand_seeds(i) == (master_seed * (i + 1) + i) % 101

bad_substrs == { <<"C","C">>, <<"G","G">>, <<"A","A","A">>, <<"T","T","T">> }

fudge_factor == 5

min_buffer_len == 5

HasBadSubstr(s) == \E b \in bad_substrs : Contains(s, b)

\* target D of /shared/targets.yml, as printed by the notebook
TargetD ==
    <<"T","T","T","A","G","T","G","A","T","A","A","G","T","G","G","A","A","T",
      "G","C","C","A","T","G","T","G","G">>

\* design.shuffled_equalish_bases(18, bad_substrs), as printed by the notebook
cr1 == <<"A","G","A","T","C","G","C","A","G","C","T","C","G","T","C","A","A","T">>

cr2 == <<"C","G","T","C","A","T","A","A","T","G","A","A","C","G","C","G","C","T">>

\* design.get_buffer(5, 'left' / 'right', target, bad_substrs), as printed
buffer1 == <<"A","T","C","G","A">>

buffer2 == <<"A","T","G","C","A">>

\* a string of length n that holds no forbidden substring
CleanPattern(n, off) == [i \in 1..n |-> bases[((i + off) % 4) + 1]]

\* ------------------------------------------------------------------------
\* NucleaSeqOligo
\* ------------------------------------------------------------------------

\* NucleaSeqOligo(cr_left, barcode_left, buffer_left, target, buffer_right,
\*                right_fill, barcode_right, cr_right); oid is the object identity
NucleaSeqOligo(oid, a1, a2, a3, a4, a5, a6, a7, a8) ==
    [oid |-> oid, pieces |-> <<a1, a2, a3, a4, a5, a6, a7, a8>>]

o_cr_left(o) == o.pieces[1]

o_barcode_left(o) == o.pieces[2]

o_buffer_left(o) == o.pieces[3]

o_target(o) == o.pieces[4]

o_buffer_right(o) == o.pieces[5]

o_right_fill(o) == o.pieces[6]

o_barcode_right(o) == o.pieces[7]

o_cr_right(o) == o.pieces[8]

\* len(oligo)
OligoLen(o) ==
    Len(o.pieces[1]) + Len(o.pieces[2]) + Len(o.pieces[3]) + Len(o.pieces[4])
    + Len(o.pieces[5]) + Len(o.pieces[6]) + Len(o.pieces[7]) + Len(o.pieces[8])

SetMax(S) == CHOOSE x \in S : \A y \in S : y <= x

\* ------------------------------------------------------------------------
\* Cut sites
\* ------------------------------------------------------------------------

\* the cut index taken with int(x) in place of int(math.ceil(x))
IntFloorHalf(h2) == h2 \div 2

\* int(math.ceil(x)) of the number x = h2 / 2
IntCeilHalf(h2) == -((-h2) \div 2)

AbsCutSites(h) == [i \in 1..Len(h) |-> IntCeilHalf(h[i])]

PamtargCutSites(abs_sites, one_pos) == [i \in 1..Len(abs_sites) |-> abs_sites[i] - one_pos]

\* the printout '{} x {}'.format(target[:ccs], target[ccs:])
CutPrintout(tgt, h) ==
    [i \in 1..Len(h) |-> <<Slice(tgt, 0, IntCeilHalf(h[i])), SliceFrom(tgt, IntCeilHalf(h[i]))>>]

\* ------------------------------------------------------------------------
\* Construct sequences: barcode pairs
\* ------------------------------------------------------------------------

Min3(a, b, c) == Min2(a, Min2(b, c))

SetMin(S) == CHOOSE x \in S : \A y \in S : x <= y

\* one row of the Levenshtein table, from the row before it
RECURSIVE NextRow(_, _, _, _)
NextRow(prev, ch, b, acc) ==
    IF Len(acc) = Len(b) + 1 THEN acc
    ELSE LET j == Len(acc)
             v == Min3(prev[j + 1] + 1, acc[j] + 1,
                       prev[j] + (IF ch = b[j] THEN 0 ELSE 1))
         IN  NextRow(prev, ch, b, Append(acc, v))

RECURSIVE LevFrom(_, _, _, _)
LevFrom(a, b, i, prev) ==
    IF i > Len(a) THEN prev[Len(b) + 1]
    ELSE LevFrom(a, b, i + 1, NextRow(prev, a[i], b, <<prev[1] + 1>>))

\* editdistance.eval(a, b): the Levenshtein distance
editdistance_eval(a, b) == LevFrom(a, b, 1, [j \in 1..(Len(b) + 1) |-> j - 1])

target_seeds(tgt) == <<Slice(tgt, 0, 14), Tail_n(tgt, 13)>>

SeedDist(s, target_seed) ==
    LET slong == IF Len(s) > Len(target_seed) THEN s ELSE target_seed
        sshort == IF Len(s) > Len(target_seed) THEN target_seed ELSE s
        slong_rc == dna_rev_comp(slong)
    IN  SetMin({ editdistance_eval(sshort, SubSeq(w[2], w[1] + 1, w[1] + Len(sshort))) :
                 w \in (0..(Len(slong) - Len(sshort))) \X {slong, slong_rc} })

min_dist_to_target_seed(s, tgt) ==
    SetMin({ SeedDist(s, target_seeds(tgt)[k]) : k \in 1..2 })

RECURSIVE SortFrom(_, _, _)
SortFrom(list, keys, d) ==
    IF d < 0 THEN <<>>
    ELSE LET ix == SelectSeq([i \in 1..Len(list) |-> i], LAMBDA i : keys[i] = d)
         IN  Strict([k \in 1..Len(ix) |-> list[ix[k]]]) \o SortFrom(list, keys, d - 1)

\* barcodes.sort(key=min_dist_to_target_seed, reverse=True): stable, largest key first
SortBarcodes(bcs, tgt) ==
    LET keys == Strict([i \in 1..Len(bcs) |-> min_dist_to_target_seed(bcs[i], tgt)])
    IN  IF bcs = <<>> THEN <<>>
        ELSE SortFrom(bcs, keys, SetMax({keys[i] : i \in 1..Len(bcs)}))

\* random.shuffle(list): a permutation fixed by the generator's state r,
\* stood in for by the rotation by r
Shuffle(list, r) ==
    Strict([i \in 1..Len(list) |-> list[((i - 1 + r) % Len(list)) + 1]])

\* the pairing with the index i + 1 clamped to the list instead of wrapped
\* around: the last two barcodes both get the last barcode on the right
BarcodePairs_NoWrap(list) ==
    Strict([i \in 1..Len(list) |->
              <<list[i], Strict(dna_rev_comp(list[Min2(i + 1, Len(list))]))>>])

\* pairs (bc_i, reverse complement of bc_{i+1}), cyclically
BarcodePairs(list) ==
    Strict([i \in 1..Len(list) |-> <<list[i], Strict(dna_rev_comp(list[(i % Len(list)) + 1]))>>])

\* ------------------------------------------------------------------------
\* Construct sequences: the variants
\* ------------------------------------------------------------------------

UsedPams == SubSeq(interesting_pams, 1, Min2(NPams, Len(interesting_pams)))

\* c_stretch: the loop over stretch_size
CStretch(tgt) ==
    UNION { get_stretch_of_complement_seqs(tgt, stretch_size) :
            stretch_size \in 2..Len(tgt) }

single_mismatches(tgt) == get_mismatch_seqs(tgt, 1)

single_insertions(tgt) == get_insertion_seqs(tgt, 1)

single_deletions(tgt) == get_deletion_seqs(tgt, 1)

\* sequence_set with the double deletions logged but never added
SequenceSet_NoDoubleDeletions(tgt, tgts) ==
    get_interesting_pam_seqs(tgt, UsedPams)
    \cup get_single_mm_single_del_seqs(tgt)
    \cup get_single_mm_single_ins_seqs(tgt)
    \cup single_mismatches(tgt)
    \cup single_insertions(tgt)
    \cup single_deletions(tgt)
    \cup CStretch(tgt)
    \cup tgts
    \cup get_mismatch_seqs(tgt, 2)
    \cup get_insertion_seqs(tgt, 2)

\* everything the cell adds to sequence_set
SequenceSet(tgt, tgts) ==
    get_interesting_pam_seqs(tgt, UsedPams)
    \cup get_single_mm_single_del_seqs(tgt)
    \cup get_single_mm_single_ins_seqs(tgt)
    \cup single_mismatches(tgt)
    \cup single_insertions(tgt)
    \cup single_deletions(tgt)
    \cup CStretch(tgt)
    \cup tgts
    \cup get_mismatch_seqs(tgt, 2)
    \cup get_deletion_seqs(tgt, 2)
    \cup get_insertion_seqs(tgt, 2)

Triple(b) == <<b, b, b>>

\* alt_buffers: the left buffers (the right buffer is the left one reversed)
AltBuffers ==
    { b \in get_randomized_stretch_seqs(buffer1, 2) :
        /\ ~Contains(b, Triple("A")) /\ ~Contains(b, Triple("C"))
        /\ ~Contains(b, Triple("G")) /\ ~Contains(b, Triple("T"))
        /\ StartsWith(b, Slice(buffer1, 0, 3)) }

\* good_gc_alt_buffers: gc_content <= 0.6
GoodGcAltBuffers == { a \in AltBuffers : 10 * GCCount(a) <= 6 * Len(a) }

\* ------------------------------------------------------------------------
\* Construct sequences: the oligos, in the order the cell asks for barcode pairs.
\* A request is <<left buffer, target piece, right buffer>>.
\* ------------------------------------------------------------------------

Copies(x, n) == [i \in 1..n |-> x]

\* the requests made before the error-detection sequences
MandatoryRequests(tgt, tgts, n_perfect) ==
    LET seqs == LexOrder(SequenceSet(tgt, tgts), 0)
        alts == LexOrder(GoodGcAltBuffers, 0)
    IN  [i \in 1..Len(seqs) |-> <<buffer1, seqs[i], buffer2>>]
        \o [i \in 1..Len(alts) |-> <<alts[i], tgt, Reverse(alts[i])>>]
        \o Copies(<<buffer1, tgt, buffer2>>, n_perfect)

\* the rounds of "while total_desired_seqs - len(complete_sequences) > num_singles"
RECURSIVE SinglesRounds(_, _, _)
SinglesRounds(singles, total, have) ==
    IF total - have > Len(singles)
    THEN singles \o SinglesRounds(singles, total, have + Len(singles))
    ELSE <<>>

\* the fill with "while total_desired_seqs - 1 > len(complete_sequences)"
FillRequests_OneShort(tgt, total, have) ==
    LET singles == LexOrder(single_deletions(tgt) \cup single_insertions(tgt)
                            \cup single_mismatches(tgt), 0)
        rounds == SinglesRounds([i \in 1..Len(singles) |-> <<buffer1, singles[i], buffer2>>],
                                total, have)
        after == have + Len(rounds)
    IN  rounds \o Copies(<<buffer1, tgt, buffer2>>, Max2(total - 1 - after, 0))

\* the requests of "Fill unused seqs", when `have` oligos exist already
FillRequests(tgt, total, have) ==
    LET singles == LexOrder(single_deletions(tgt) \cup single_insertions(tgt)
                            \cup single_mismatches(tgt), 0)
        rounds == SinglesRounds([i \in 1..Len(singles) |-> <<buffer1, singles[i], buffer2>>],
                                total, have)
        after == have + Len(rounds)
    IN  rounds \o Copies(<<buffer1, tgt, buffer2>>, Max2(total - after, 0))

\* the oligos of requests reqs[from..to]; request k takes the k-th pair from the
\* end of pairs (barcode_pairs.pop()), and its identity is oid0 + k
OligosOf(reqs, from, to, pairs, oid0) ==
    { NucleaSeqOligo(oid0 + k, cr1, pairs[Len(pairs) + 1 - k][1],
                     reqs[k][1], reqs[k][2], reqs[k][3], <<>>,
                     pairs[Len(pairs) + 1 - k][2], cr2) : k \in from..to }

\* generate_clean_random_eqmarg_seqs(nseq, seqlen): nseq strings of length seqlen
ErrDetectSeqs(nseq, seqlen) == [j \in 1..nseq |-> CleanPattern(seqlen, j)]

ErrOligos(err_seqs, err_pairs, oid0) ==
    { NucleaSeqOligo(oid0 + j, cr1, err_pairs[Len(err_pairs) + 1 - j][1],
                     <<>>, err_seqs[j], <<>>, <<>>,
                     err_pairs[Len(err_pairs) + 1 - j][2], cr2) : j \in 1..Len(err_seqs) }

\* ------------------------------------------------------------------------
\* State: the notebook's globals, and pc, the cell (or place in a cell) reached
\* ------------------------------------------------------------------------

VARIABLES
    pc,
    target, targets, barcodes,
    total_desired_seqs, n_err_detect_seqs, min_perfect_target_copies,
    min_primer_len, max_primer_len,
    h_cannonical_cut_sites, pamtarg_coord_one_pos,
    abs_cannonical_cut_sites, cannonical_cut_sites, cut_printout,
    barcode_pairs, err_barcode_pairs, sequence_set, c_stretch, complete_sequences,
    primer_len, fake_primer_len, good_prefixes, prev_good_prefixes, prefix_lens_tried,
    left_primer, right_primer, cr_left, cr_right

params == <<target, targets, total_desired_seqs, n_err_detect_seqs,
            min_perfect_target_copies, min_primer_len, max_primer_len,
            h_cannonical_cut_sites, pamtarg_coord_one_pos>>

cuts == <<abs_cannonical_cut_sites, cannonical_cut_sites, cut_printout>>

construction == <<barcodes, barcode_pairs, err_barcode_pairs, sequence_set, c_stretch>>

search == <<primer_len, fake_primer_len, good_prefixes, prev_good_prefixes,
            prefix_lens_tried>>

primers == <<left_primer, right_primer, cr_left, cr_right>>

vars == <<pc, params, cuts, construction, complete_sequences, search, primers>>

\* ------------------------------------------------------------------------
\* The construction cell
\* ------------------------------------------------------------------------

TTTA == <<"T", "T", "T", "A">>

\* norm_barcodes = barcodes[n_err_detect_seqs:] : every barcode left after the
\* error-detection ones, however many oligos are wanted
NormBarcodes_Unbounded(sorted, n_err, total) == SliceFrom(sorted, n_err)

\* norm_barcodes = barcodes[n_err_detect_seqs:total_desired_seqs]
NormBarcodes(sorted, n_err, total) == Slice(sorted, n_err, total)

\* What the construction cell leaves behind: ok is FALSE when it raised.
ConstructResult(bcs, tgt, tgts, total, n_err, n_perfect) ==
    LET sorted == SortBarcodes(bcs, tgt)
        err_barcodes == Slice(sorted, 0, n_err)
        norm_barcodes == NormBarcodes(sorted, n_err, total)
        pairs == BarcodePairs(Shuffle(norm_barcodes, rand_seeds(2)))
        err_pairs == BarcodePairs(Shuffle(err_barcodes, rand_seeds(2) + 1))
        N == Len(pairs)
        mand == MandatoryRequests(tgt, tgts, n_perfect)
        c1 == OligosOf(mand, 1, Len(mand), pairs, 0)
        last == pairs[N + 1 - Len(mand)]
        len_err_detect_seq ==
            SetMax({OligoLen(o) : o \in c1})
            - (Len(cr1) + Len(last[1]) + Len(last[2]) + Len(cr2))
        err_detect_seqs == ErrDetectSeqs(n_err, len_err_detect_seq)
        c2 == c1 \cup ErrOligos(err_detect_seqs, err_pairs, Len(mand))
        pairs2 == SubSeq(pairs, 1, N - Len(mand))
        fill == FillRequests(tgt, total, Cardinality(c2))
        served == Min2(Len(fill), Len(pairs2))
        c3 == c2 \cup OligosOf(fill, 1, served, pairs2, Len(mand) + n_err)
        none == [ok |-> FALSE, barcodes |-> sorted, barcode_pairs |-> <<>>,
                 err_barcode_pairs |-> <<>>, sequence_set |-> {}, c_stretch |-> {},
                 complete_sequences |-> {}]
    IN  IF err_barcodes = <<>> \/ norm_barcodes = <<>>
        THEN none                                   \* IndexError in the log line
        ELSE IF ~StartsWith(tgt, TTTA)
        THEN [none EXCEPT !.barcode_pairs = pairs,   \* assert in get_interesting_pam_seqs
                          !.err_barcode_pairs = err_pairs]
        ELSE IF Len(mand) > N
        THEN [ok |-> FALSE, barcodes |-> sorted, barcode_pairs |-> <<>>,
              err_barcode_pairs |-> err_pairs,
              sequence_set |-> SequenceSet(tgt, tgts), c_stretch |-> CStretch(tgt),
              complete_sequences |-> OligosOf(mand, 1, N, pairs, 0)]
        ELSE [ok |-> Len(fill) <= Len(pairs2), barcodes |-> sorted,
              barcode_pairs |-> SubSeq(pairs2, 1, Len(pairs2) - served),
              err_barcode_pairs |-> <<>>,
              sequence_set |-> SequenceSet(tgt, tgts), c_stretch |-> CStretch(tgt),
              complete_sequences |-> c3]

Construct ==
    /\ pc = "ready"
    /\ \E r \in {ConstructResult(barcodes, target, targets, total_desired_seqs,
                                 n_err_detect_seqs, min_perfect_target_copies)} :
           /\ pc' = IF r.ok THEN "constructed" ELSE "error"
           /\ barcodes' = r.barcodes
           /\ barcode_pairs' = r.barcode_pairs
           /\ err_barcode_pairs' = r.err_barcode_pairs
           /\ sequence_set' = r.sequence_set
           /\ c_stretch' = r.c_stretch
           /\ complete_sequences' = r.complete_sequences
    /\ UNCHANGED <<params, cuts, search, primers>>

\* assert len(left_bcs) == len(right_bc_rcs)
CheckBarcodes ==
    /\ pc = "constructed"
    /\ LET left_bcs == {o_barcode_left(o) : o \in complete_sequences}
           right_bc_rcs == {dna_rev_comp(o_barcode_right(o)) : o \in complete_sequences}
       IN  pc' = IF Cardinality(left_bcs) = Cardinality(right_bc_rcs)
                 THEN "checked" ELSE "error"
    /\ UNCHANGED <<params, cuts, construction, complete_sequences, search, primers>>

\* ------------------------------------------------------------------------
\* The cut-site cells
\* ------------------------------------------------------------------------

ComputeCutSites ==
    /\ pc = "params"
    /\ abs_cannonical_cut_sites' = AbsCutSites(h_cannonical_cut_sites)
    /\ cannonical_cut_sites' =
           PamtargCutSites(AbsCutSites(h_cannonical_cut_sites), pamtarg_coord_one_pos)
    /\ pc' = "cut_sites"
    /\ UNCHANGED <<params, cut_printout, construction, complete_sequences, search, primers>>

PrintCutSites ==
    /\ pc = "cut_sites"
    /\ cut_printout' = CutPrintout(target, h_cannonical_cut_sites)
    /\ pc' = "ready"
    /\ UNCHANGED <<params, abs_cannonical_cut_sites, cannonical_cut_sites,
                   construction, complete_sequences, search, primers>>

\* ------------------------------------------------------------------------
\* Build primers
\* ------------------------------------------------------------------------

WithoutFill(o, bl, br) ==
    Len(o.pieces[1]) + Len(o.pieces[2]) + Len(bl) + Len(o.pieces[4]) + Len(br)
    + Len(o.pieces[7]) + Len(o.pieces[8])

\* design.update_buffers(complete_sequences, primer_len, min_buffer_len, ...) after
\* random.seed(r): every oligo keeps its primers, barcodes and target, gets buffers
\* without forbidden substrings and is filled on the right to one common length
update_buffers(cs, plen, r) ==
    LET bl == CleanPattern(Max2(min_buffer_len, plen), r)
        br == CleanPattern(Max2(min_buffer_len, plen), r + 1)
        common == SetMax({WithoutFill(o, bl, br) : o \in cs})
    IN  { [o EXCEPT !.pieces = <<o.pieces[1], o.pieces[2], bl, o.pieces[4], br,
                                 CleanPattern(common - WithoutFill(o, bl, br), r + 2),
                                 o.pieces[7], o.pieces[8]>>] : o \in cs }

\* design.find_good_prefixes(complete_sequences, primer_len, bad_substrs, ...)
\* when it finds n prefixes: n strings of length primer_len without forbidden
\* substrings
find_good_prefixes(n, plen) == [i \in 1..n |-> CleanPattern(plen, i)]

UpdateBuffersCell ==
    /\ pc = "checked"
    /\ complete_sequences' = update_buffers(complete_sequences, min_primer_len, rand_seeds(9))
    /\ pc' = "search"
    /\ UNCHANGED <<params, cuts, construction, search, primers>>

\* the value "for primer_len in range(min_primer_len, max_primer_len + 1)" takes
\* next; primer_len = 0 stands for the loop not having started
NextPrimerLen(cur, min_len) == IF cur = 0 THEN min_len ELSE cur + 1

\* one pass of the loop body
TryPrimerLen ==
    /\ pc = "search"
    /\ NextPrimerLen(primer_len, min_primer_len) <= max_primer_len
    /\ \E n \in 0..MaxGoodPrefixes :
         /\ primer_len' = NextPrimerLen(primer_len, min_primer_len)
         /\ complete_sequences' = update_buffers(complete_sequences, primer_len', rand_seeds(3))
         /\ good_prefixes' = find_good_prefixes(n, primer_len')
         /\ prefix_lens_tried' = Append(prefix_lens_tried, primer_len')
         /\ pc' = IF Len(good_prefixes') >= 2 THEN "search_end" ELSE "search"
    /\ UNCHANGED <<params, cuts, construction, fake_primer_len, prev_good_prefixes, primers>>

\* the range is used up
SearchExhausted ==
    /\ pc = "search"
    /\ NextPrimerLen(primer_len, min_primer_len) > max_primer_len
    /\ pc' = "search_end"
    /\ UNCHANGED <<params, cuts, construction, complete_sequences, search, primers>>

\* assert len(good_prefixes) >= 2, then "if primer_len == min_primer_len"
AssertGoodPrefixes ==
    /\ pc = "search_end"
    /\ IF Len(good_prefixes) < 2
       THEN pc' = "error" /\ UNCHANGED prev_good_prefixes
       ELSE IF primer_len = min_primer_len
       THEN pc' = "fallback" /\ prev_good_prefixes' = good_prefixes
       ELSE pc' = "search_done" /\ UNCHANGED prev_good_prefixes
    /\ UNCHANGED <<params, cuts, construction, complete_sequences, primer_len,
                   fake_primer_len, good_prefixes, prefix_lens_tried, primers>>

\* the value "for fake_primer_len in range(primer_len-1, 0, -1)" takes next;
\* fake_primer_len = 0 stands for the name not being bound yet
NextFakeLen(cur, plen) == IF cur = 0 THEN plen - 1 ELSE cur - 1

\* the primer length the fallback loop hands to find_good_prefixes
FallbackPrefixLen(plen, fake) == plen

\* one pass of the fallback loop body
FallbackTry ==
    /\ pc = "fallback"
    /\ NextFakeLen(fake_primer_len, primer_len) >= 1
    /\ \E n \in 0..MaxGoodPrefixes :
         /\ fake_primer_len' = NextFakeLen(fake_primer_len, primer_len)
         /\ complete_sequences' =
                update_buffers(complete_sequences, fake_primer_len', rand_seeds(3))
         /\ good_prefixes' =
                find_good_prefixes(n, FallbackPrefixLen(primer_len, fake_primer_len'))
         /\ prefix_lens_tried' =
                Append(prefix_lens_tried, FallbackPrefixLen(primer_len, fake_primer_len'))
         /\ IF Len(good_prefixes') >= 2
            THEN prev_good_prefixes' = good_prefixes' /\ pc' = "fallback"
            ELSE UNCHANGED prev_good_prefixes /\ pc' = "fallback_end"
    /\ UNCHANGED <<params, cuts, construction, primer_len, primers>>

FallbackExhausted ==
    /\ pc = "fallback"
    /\ NextFakeLen(fake_primer_len, primer_len) < 1
    /\ pc' = "fallback_end"
    /\ UNCHANGED <<params, cuts, construction, complete_sequences, search, primers>>

\* good_prefixes left as the failed pass of the fallback loop set it
NotReverted(good, prev) == good

\* good_prefixes after "Failed, reverting to best previous"
Reverted(good, prev) == prev

\* good_prefixes = prev_good_prefixes; fake_primer_len += 1 (a NameError when the
\* fallback loop had nothing to run over)
FallbackRevert ==
    /\ pc = "fallback_end"
    /\ good_prefixes' = Reverted(good_prefixes, prev_good_prefixes)
    /\ IF fake_primer_len = 0
       THEN pc' = "error" /\ UNCHANGED fake_primer_len
       ELSE pc' = "search_done" /\ fake_primer_len' = fake_primer_len + 1
    /\ UNCHANGED <<params, cuts, construction, complete_sequences, primer_len,
                   prev_good_prefixes, prefix_lens_tried, primers>>

\* ------------------------------------------------------------------------
\* Replace primers
\* ------------------------------------------------------------------------

LeftPrimer(prefixes) == prefixes[1]

RightPrimer(prefixes) == prefixes[2] \o <<"G">>

ChoosePrimers ==
    /\ pc = "search_done"
    /\ left_primer' = LeftPrimer(good_prefixes)
    /\ right_primer' = RightPrimer(good_prefixes)
    /\ cr_left' = left_primer'
    /\ cr_right' = dna_rev_comp(right_primer')
    /\ pc' = "primers"
    /\ UNCHANGED <<params, cuts, construction, complete_sequences, search>>

\* the replacement with the right primer forgotten
WithPrimers_LeftOnly(cs, l, r) ==
    { [o EXCEPT !.pieces[1] = l] : o \in cs }

\* for oligo in complete_sequences: oligo._cr_left = cr_left; oligo._cr_right = cr_right
WithPrimers(cs, l, r) ==
    { [o EXCEPT !.pieces[1] = l, !.pieces[8] = r] : o \in cs }

ReplacePrimers ==
    /\ pc = "primers"
    /\ complete_sequences' = WithPrimers(complete_sequences, cr_left, cr_right)
    /\ pc' = "done"
    /\ UNCHANGED <<params, cuts, construction, search, primers>>

\* ------------------------------------------------------------------------
\* Inputs
\* ------------------------------------------------------------------------

\* the i-th barcode of the barcode file (all distinct)
Barcode(i) == [j \in 1..BarcodeLen |-> bases[(((i - 1) \div (4 ^ (j - 1))) % 4) + 1]]

\* a barcode file of n lines; with dup, its last line repeats its first
BarcodeFile(n, dup) ==
    [i \in 1..n |-> IF dup /\ i = n THEN Barcode(1) ELSE Barcode(i)]

\* targets.yml: the target of the given length and one alternative target
TargetsFile(n) ==
    [target |-> Slice(TargetD, 0, n), targets |-> {Slice(TargetD, 0, n), Tail_n(TargetD, n)}]

\* a targets.yml whose chosen target does not start with TTTA
BadTargetsFile ==
    [target |-> Tail_n(TargetD, 4), targets |-> {Slice(TargetD, 0, 4), Tail_n(TargetD, 4)}]

NumSingles(tgt) ==
    Cardinality(single_deletions(tgt)) + Cardinality(single_insertions(tgt))
    + Cardinality(single_mismatches(tgt))

\* total_desired_seqs, as the number of oligos that must be made plus a slack
\* chosen by code: 0: one too few, 1: exact, 2: two perfects to add,
\* 3: one round of single-error copies and two perfects to add
TotalFor(tf, n_err, n_perfect, code) ==
    Len(MandatoryRequests(tf.target, tf.targets, n_perfect)) + n_err
    + (CASE code = 0 -> -1
         [] code = 1 -> 0
         [] code = 2 -> 2
         [] code = 3 -> NumSingles(tf.target) + 2)

Config(tf, n_err, n_perfect, code, extra, dup, min_pl, max_pl) ==
    [tf |-> tf, n_err |-> n_err, n_perfect |-> n_perfect,
     total |-> TotalFor(tf, n_err, n_perfect, code),
     extra |-> extra, dup |-> dup, min_pl |-> min_pl, max_pl |-> max_pl]

\* a run whose barcode file holds nb barcodes, no more than there are
\* error-detection sequences to make or one more
ShortConfig(n_err, nb) ==
    LET c == Config(TargetsFile(4), n_err, 0, 1, 0, FALSE, 2, MaxPrimerLen)
    IN  [c EXCEPT !.extra = nb - c.total]

\* the runs explored: the construction's inputs varied with the primer lengths
\* fixed, the primer lengths varied on one construction, and barcode files of a
\* few lines
Configs ==
    { Config(tf, 1, MaxPerfectCopies, code, extra, FALSE, 2, MaxPrimerLen) :
        tf \in {TargetsFile(n) : n \in 4..MaxTargetLen} \cup {BadTargetsFile},
        code \in 0..3, extra \in {-1, 0, 3} }
    \cup
    { Config(TargetsFile(4), n_err, n_perfect, 2, 0, dup, 2, MaxPrimerLen) :
        n_err \in 0..MaxErrSeqs, n_perfect \in 0..MaxPerfectCopies, dup \in BOOLEAN }
    \cup
    { Config(TargetsFile(4), 1, 0, 1, 0, FALSE, min_pl, max_pl) :
        min_pl \in 1..MaxPrimerLen, max_pl \in 1..MaxPrimerLen }
    \cup
    { ShortConfig(n_err, nb) : n_err \in 1..MaxErrSeqs, nb \in 0..MaxErrSeqs }

\* nothing computed yet
Blank ==
    /\ abs_cannonical_cut_sites = <<>>
    /\ cannonical_cut_sites = <<>>
    /\ cut_printout = <<>>
    /\ barcode_pairs = <<>>
    /\ err_barcode_pairs = <<>>
    /\ sequence_set = {}
    /\ c_stretch = {}
    /\ complete_sequences = {}
    /\ primer_len = 0
    /\ fake_primer_len = 0
    /\ good_prefixes = <<>>
    /\ prev_good_prefixes = <<>>
    /\ prefix_lens_tried = <<>>
    /\ left_primer = <<>>
    /\ right_primer = <<>>
    /\ cr_left = <<>>
    /\ cr_right = <<>>

\* h_cannonical_cut_sites holds twice each cut position: 1.5 is 3, 3.5 is 7
Init ==
    /\ pc = "params"
    /\ \E c \in Configs :
         /\ target = c.tf.target
         /\ targets = c.tf.targets
         /\ total_desired_seqs = c.total
         /\ n_err_detect_seqs = c.n_err
         /\ min_perfect_target_copies = c.n_perfect
         /\ barcodes = BarcodeFile(c.total + c.extra, c.dup)
         /\ min_primer_len = c.min_pl
         /\ max_primer_len = c.max_pl
    /\ h_cannonical_cut_sites = <<3, 7>>
    /\ pamtarg_coord_one_pos = 3
    /\ Blank

Next ==
    \/ ComputeCutSites
    \/ PrintCutSites
    \/ Construct
    \/ CheckBarcodes
    \/ UpdateBuffersCell
    \/ TryPrimerLen
    \/ SearchExhausted
    \/ AssertGoodPrefixes
    \/ FallbackTry
    \/ FallbackExhausted
    \/ FallbackRevert
    \/ ChoosePrimers
    \/ ReplacePrimers

Spec == Init /\ [][Next]_vars

\* ------------------------------------------------------------------------
\* The cut-site cells on their own, over cut positions and PAM-target coordinates
\* ------------------------------------------------------------------------

\* cut positions, doubled: whole numbers and numbers ending in .5
CutLists ==
    UNION { [1..n -> 0..(2 * MaxCut + 1)] : n \in 1..2 }

InitCut ==
    /\ pc = "params"
    /\ target = Slice(TargetD, 0, MaxCut + 2)
    /\ targets = {target}
    /\ total_desired_seqs = 0
    /\ n_err_detect_seqs = 0
    /\ min_perfect_target_copies = 0
    /\ barcodes = <<>>
    /\ min_primer_len = 1
    /\ max_primer_len = 1
    /\ h_cannonical_cut_sites \in CutLists
    /\ pamtarg_coord_one_pos \in 0..MaxCut
    /\ Blank

NextCut ==
    \/ ComputeCutSites
    \/ PrintCutSites

SpecCut == InitCut /\ [][NextCut]_vars

\* ------------------------------------------------------------------------
\* The complement-stretch loop on its own, over targets up to the full target D
\* ------------------------------------------------------------------------

\* the pieces of target D of at least two bases
TargetPieces ==
    { SubSeq(TargetD, i, j) : <<i, j>> \in {p \in (1..Len(TargetD)) \X (1..Len(TargetD)) :
                                             p[1] < p[2]} }

InitStretch ==
    /\ pc = "ready"
    /\ target \in TargetPieces
    /\ targets = {target}
    /\ total_desired_seqs = 0
    /\ n_err_detect_seqs = 0
    /\ min_perfect_target_copies = 0
    /\ barcodes = <<>>
    /\ min_primer_len = 1
    /\ max_primer_len = 1
    /\ h_cannonical_cut_sites = <<>>
    /\ pamtarg_coord_one_pos = 0
    /\ Blank

\* "for stretch_size in range(2, len(target) + 1)" and what follows it
CStretchLoop ==
    /\ pc = "ready"
    /\ c_stretch' = CStretch(target)
    /\ sequence_set' = sequence_set \cup c_stretch'
    /\ pc' = "c_stretch"
    /\ UNCHANGED <<params, cuts, barcodes, barcode_pairs, err_barcode_pairs,
                   complete_sequences, search, primers>>

NextStretch == CStretchLoop

SpecStretch == InitStretch /\ [][NextStretch]_vars

\* ------------------------------------------------------------------------
\* Properties
\* ------------------------------------------------------------------------

\* the construction cell has completed without error
Constructed ==
    pc \in {"constructed", "checked", "search", "search_end", "fallback",
            "fallback_end", "search_done", "primers", "done"}

BarcodeSet == {barcodes[i] : i \in 1..Len(barcodes)}

\* the barcode file has no duplicate entries
NoDuplicateBarcodes == Cardinality(BarcodeSet) = Len(barcodes)

\* an oligo carrying one of the error-detection barcodes (the first
\* n_err_detect_seqs of the sorted barcodes)
IsErrOligo(o) ==
    \E i \in 1..Min2(n_err_detect_seqs, Len(barcodes)) : barcodes[i] = o.pieces[2]

\* C1: every oligo of complete_sequences is made of eight pieces in the order
\* left primer, left barcode, left buffer, target variant, right buffer, right
\* fill, right barcode (reverse complement of a barcode), right primer; and at
\* every stage all oligos carry the same left primer and the same right primer
\* (cr1 and cr2 until the primers are replaced, cr_left and cr_right after)
C1_EightPiecesCommonPrimers ==
    LET bcs == BarcodeSet
        variants == sequence_set \cup {target}
    IN  \A o \in complete_sequences :
          /\ Len(o.pieces) = 8
          /\ o.pieces[1] = (IF pc = "done" THEN cr_left ELSE cr1)
          /\ o.pieces[8] = (IF pc = "done" THEN cr_right ELSE cr2)
          /\ o.pieces[2] \in bcs
          /\ dna_rev_comp(o.pieces[7]) \in bcs
          /\ (IsErrOligo(o) \/ o.pieces[4] \in variants)
          /\ (pc \in {"constructed", "checked"} =>
                /\ o.pieces[6] = <<>>
                /\ \/ o.pieces[3] = <<>> /\ o.pieces[5] = <<>>
                   \/ o.pieces[3] = buffer1 /\ o.pieces[5] = buffer2
                   \/ o.pieces[4] = target /\ o.pieces[5] = Reverse(o.pieces[3]))

\* the primers of a complete library have been replaced by the found ones
C1_Witness ==
    /\ pc = "done"
    /\ complete_sequences # {}
    /\ cr_left # cr1
    /\ \E o \in complete_sequences : o.pieces[1] = cr_left /\ o.pieces[8] = cr_right

\* C2: once the construction cell has completed without error, complete_sequences
\* holds exactly total_desired_seqs oligos
C2_ExactlyTotalDesired ==
    Constructed => Cardinality(complete_sequences) = total_desired_seqs

\* a completed construction whose fill stage added perfect-target oligos: more
\* standard-buffer perfects than the copies asked for plus the target's own entry
\* in sequence_set
C2_Witness ==
    /\ pc = "constructed"
    /\ Cardinality({o \in complete_sequences :
                      /\ o.pieces[4] = target
                      /\ o.pieces[3] = buffer1
                      /\ o.pieces[5] = buffer2}) > min_perfect_target_copies + 1

\* C3: when the barcode file has no duplicate entries, no two oligos of
\* complete_sequences share a left barcode and no two share a right barcode:
\* there are as many left barcodes, and as many right-barcode reverse
\* complements, as oligos
C3_BarcodesUnique ==
    NoDuplicateBarcodes =>
        /\ Cardinality({o.pieces[2] : o \in complete_sequences})
               = Cardinality(complete_sequences)
        /\ Cardinality({dna_rev_comp(o.pieces[7]) : o \in complete_sequences})
               = Cardinality(complete_sequences)

\* a completed library from a duplicate-free barcode file, holding variant,
\* perfect-target and error-detection oligos
C3_Witness ==
    /\ pc = "constructed"
    /\ NoDuplicateBarcodes
    /\ \E o \in complete_sequences : IsErrOligo(o) /\ o.pieces[3] = <<>>
    /\ \E o \in complete_sequences : o.pieces[4] = target /\ o.pieces[3] = buffer1
    /\ \E o \in complete_sequences : o.pieces[4] # target /\ o.pieces[3] = buffer1

\* the variant categories the notebook generates, each from its generator
VariantCategories(tgt, tgts) ==
    { get_mismatch_seqs(tgt, 1), get_mismatch_seqs(tgt, 2),
      get_insertion_seqs(tgt, 1), get_insertion_seqs(tgt, 2),
      get_deletion_seqs(tgt, 1), get_deletion_seqs(tgt, 2),
      CStretch(tgt),
      get_interesting_pam_seqs(tgt, UsedPams),
      get_single_mm_single_ins_seqs(tgt),
      get_single_mm_single_del_seqs(tgt),
      tgts }

\* C4: at the end of construction every sequence of every variant category is the
\* target piece of some oligo whose buffers are buffer1 and buffer2
C4_EveryVariantHasOligo ==
    pc \in {"constructed", "checked"} =>
        LET flanked == {o.pieces[4] : o \in {x \in complete_sequences :
                            x.pieces[3] = buffer1 /\ x.pieces[5] = buffer2}}
        IN  \A category \in VariantCategories(target, targets) : category \subseteq flanked

\* a completed construction with a double deletion and an interesting-PAM
\* sequence among the standard-buffer oligos
C4_Witness ==
    /\ pc = "constructed"
    /\ \E o \in complete_sequences :
         /\ Len(o.pieces[4]) = Len(target) - 2
         /\ o.pieces[3] = buffer1 /\ o.pieces[5] = buffer2
    /\ \E o \in complete_sequences :
         /\ Len(o.pieces[4]) = Len(target) + 2
         /\ SliceFrom(o.pieces[4], 6) = SliceFrom(target, 4)
         /\ o.pieces[3] = buffer1 /\ o.pieces[5] = buffer2

\* C5: a cut position k + 0.5 (2k + 1 when doubled) gives the absolute cut index
\* k + 1, the PAM-target coordinate k + 1 - pamtarg_coord_one_pos, and the
\* printed split target[:k+1] x target[k+1:]
C5_CutIndex ==
    \A i \in 1..Len(h_cannonical_cut_sites) :
        h_cannonical_cut_sites[i] % 2 = 1 =>
            LET k == (h_cannonical_cut_sites[i] - 1) \div 2
            IN  /\ pc # "params" =>
                     /\ abs_cannonical_cut_sites[i] = k + 1
                     /\ cannonical_cut_sites[i] = k + 1 - pamtarg_coord_one_pos
                /\ pc = "ready" =>
                     cut_printout[i] = <<SubSeq(target, 1, k + 1),
                                         SubSeq(target, k + 2, Len(target))>>

\* two cut positions ending in .5 have been converted and printed, one of them
\* to the right of pamtarg_coord_one_pos and one to the left
C5_Witness ==
    /\ pc = "ready"
    /\ Len(h_cannonical_cut_sites) = 2
    /\ h_cannonical_cut_sites[1] % 2 = 1
    /\ h_cannonical_cut_sites[2] % 2 = 1
    /\ cannonical_cut_sites[1] < 0
    /\ cannonical_cut_sites[2] > 0
    /\ cut_printout[1][1] # <<>>

\* C6: no buffer and no primer of any oligo holds a forbidden substring of
\* bad_substrs
C6_NoForbiddenSubstrings ==
    \A o \in complete_sequences :
        /\ ~HasBadSubstr(o.pieces[3])
        /\ ~HasBadSubstr(o.pieces[5])
        /\ ~HasBadSubstr(o.pieces[1])
        /\ ~HasBadSubstr(o.pieces[8])

\* C8: the complement-stretch variants are exactly those whose complemented
\* region is 3 to 24 bases long
C8_StretchLengths3To24 ==
    pc = "c_stretch" =>
        c_stretch = UNION { get_stretch_of_complement_seqs(target, n) : n \in 3..24 }

\* C9: min_primer_len is the first primer length the search tries, and while the
\* search goes on below min_primer_len the primer length it tries is the smaller
\* length
C9_GoesToSmallerPrimerLength ==
    /\ prefix_lens_tried # <<>> => prefix_lens_tried[1] = min_primer_len
    /\ (pc \in {"fallback", "fallback_end"} /\ fake_primer_len # 0) =>
           prefix_lens_tried[Len(prefix_lens_tried)] = fake_primer_len

\* C10: once the primer-search cell has completed, good_prefixes holds at least
\* two prefixes, whether or not the fallback ran; and a search that ends with
\* fewer than two prefixes raises instead of going on
C10_AtLeastTwoPrefixes ==
    /\ [](pc \in {"search_done", "primers", "done"} => Len(good_prefixes) >= 2)
    /\ [][(pc = "search_end" /\ Len(good_prefixes) < 2) => pc' = "error"]_vars

\* the search cell has completed after a fallback pass that failed and was
\* reverted
C10_Witness ==
    /\ pc = "search_done"
    /\ fake_primer_len > 1
    /\ Len(good_prefixes) >= 2
    /\ prefix_lens_tried # <<>>

\* the barcode file holds fewer barcodes than oligos are wanted
BarcodeShortage == Len(barcodes) < total_desired_seqs

\* the oligos the cell makes whatever total_desired_seqs is: one per variant,
\* one per alternative buffer, the perfect copies and the error-detection controls
MandatoryOligos ==
    Cardinality(SequenceSet(target, targets)) + Cardinality(GoodGcAltBuffers)
    + min_perfect_target_copies + n_err_detect_seqs

\* the construction cell has run, to its end or to an error
ConstructionRan == pc \notin {"params", "cut_sites", "ready"}

\* the cell raised in a barcode_pairs.pop(): the variants had been collected and
\* no barcode pair is left
AbortedAtPop ==
    /\ pc = "error"
    /\ sequence_set # {}
    /\ barcode_pairs = <<>>

\* the cell gets as far as making oligos: err_barcodes[0] and norm_barcodes[-1]
\* exist for the log line and the target passes the TTTA assertion
ReachesOligos ==
    /\ n_err_detect_seqs > 0
    /\ Len(barcodes) > n_err_detect_seqs
    /\ total_desired_seqs > n_err_detect_seqs
    /\ StartsWith(target, TTTA)

\* C11 as stated: with fewer barcodes than total_desired_seqs, or more mandatory
\* oligos than total_desired_seqs, the construction cell never completes, and
\* what aborts it is the request of a barcode pair from an empty list
C11_AbortsAtEmptyPop ==
    (ConstructionRan /\ (BarcodeShortage \/ MandatoryOligos > total_desired_seqs)) =>
        /\ pc = "error"
        /\ AbortedAtPop

\* C11, amended: with fewer barcodes than total_desired_seqs, or more mandatory
\* oligos than total_desired_seqs, the construction cell never completes: it
\* aborts when a barcode pair is requested from an empty list, or, when the run
\* cannot get as far as making oligos (no error-detection barcode or no normal
\* barcode for the log line, or a target that fails the TTTA assertion), before
\* any oligo is made
C11_ShortageAborts ==
    (ConstructionRan /\ (BarcodeShortage \/ MandatoryOligos > total_desired_seqs)) =>
        /\ pc = "error"
        /\ ~Constructed
        /\ ReachesOligos => AbortedAtPop
        /\ ~ReachesOligos => (complete_sequences = {} /\ sequence_set = {})

\* a cell aborted in the fill stage for want of one barcode: the variants and the
\* error-detection oligos had been made, the last pair was taken, and fewer
\* oligos than total_desired_seqs exist
C11_Witness ==
    /\ pc = "error"
    /\ BarcodeShortage
    /\ MandatoryOligos <= total_desired_seqs
    /\ AbortedAtPop
    /\ \E o \in complete_sequences : IsErrOligo(o) /\ o.pieces[3] = <<>>
    /\ Cardinality(complete_sequences) < total_desired_seqs

====
